---- MODULE Spec2Model ----
(***************************************************************************)
(* A model of rest_framework_json_api/resource_types.py:                   *)
(*   ResourceTypeSerializerField  - the type <-> serializer registries     *)
(*   ResourceTypeSerializer       - the container that delegates to the    *)
(*                                  serializer registered for `type`       *)
(*                                                                         *)
(* Python values are modelled as strings: "int5" is the integer 5, "str5"  *)
(* the string "5", "red" the string "red".  Python dicts are functions     *)
(* whose DOMAIN is the key set.  A call's outcome is a record built by     *)
(* ReturnStr, ReturnDict or one of the Raise operators.                    *)
(***************************************************************************)
EXTENDS Naturals, FiniteSets, Sequences, TLC

VARIABLES
    serializer_classes,          \* field: resource type -> serializer class
    resource_types,              \* field: serializer class -> resource type
    serializer_classes_by_model, \* field: model class -> serializer class
    fields,                      \* container: declared field name -> kind
    serializer,                  \* container: the `self.serializer` attribute
    ret,                         \* the last call: its name, argument, outcome
    saves,                       \* how often a delegate's save() has run
    validated                    \* a container to_internal_value has returned

vars == <<serializer_classes, resource_types, serializer_classes_by_model,
          fields, serializer, ret, saves, validated>>

(***************************************************************************)
(* Bounds                                                                  *)
(***************************************************************************)
\* longest `serializer_classes` list handed to the field's constructor
MaxListLen == 2
\* delegate save() calls followed in one behaviour
MaxSaves == 1

(***************************************************************************)
(* The universe the inputs are drawn from                                  *)
(***************************************************************************)
\* resource type strings an explicit mapping may use
TypeNames == {"widget", "gadget"}
\* type strings a payload may carry ("gizmo" is never registered)
TypeInputs == TypeNames \cup {"gizmo"}
\* the serializer classes of the application
SerializerClasses == {"WidgetSerializer", "WidgetBriefSerializer", "GadgetSerializer"}
\* the model classes of the application ("Sprocket" has no serializer)
ModelClasses == {"Widget", "Gadget", "Sprocket"}

\* serializer_class.Meta.model
MetaModel(serializer_class) ==
    CASE serializer_class = "WidgetSerializer" -> "Widget"
      [] serializer_class = "WidgetBriefSerializer" -> "Widget"
      [] serializer_class = "GadgetSerializer" -> "Gadget"

\* the fields each delegate serializer class declares: name -> [kind, required]
DelegateFields(serializer_class) ==
    CASE serializer_class = "WidgetSerializer" ->
            [id |-> [kind |-> "int", required |-> TRUE],
             color |-> [kind |-> "char", required |-> TRUE]]
      [] serializer_class = "WidgetBriefSerializer" ->
            [color |-> [kind |-> "char", required |-> TRUE]]
      [] serializer_class = "GadgetSerializer" ->
            [color |-> [kind |-> "char", required |-> FALSE]]

\* the container's declarations: `type` plus shared fields
ContainerFields ==
    { [type |-> "type"],
      [type |-> "type", id |-> "int"],
      [type |-> "type", id |-> "char"],
      [type |-> "type", id |-> "char", color |-> "char"] }

\* input payloads: any subset of the keys, each with a value a client may send
PayloadValues(key) ==
    CASE key = "type" -> TypeInputs
      [] key = "id" -> {"str5", "red"}
      [] key = "color" -> {"red"}
Payloads ==
    UNION { { d \in [K -> {"str5", "red"} \cup TypeInputs] :
                \A k \in K : d[k] \in PayloadValues(k) } :
            K \in SUBSET {"type", "id", "color"} }

\* the instances to serialize: model class and attribute values
Instances == [cls : ModelClasses, id : {"int5", "int7"}, color : {"red"}]

(***************************************************************************)
(* Dicts, messages and outcomes                                            *)
(***************************************************************************)
EmptyDict == [k \in {} |-> ""]
Range(d) == { d[k] : k \in DOMAIN d }
\* d1.update(d2)
DictUpdate(d1, d2) ==
    [k \in DOMAIN d1 \cup DOMAIN d2 |-> IF k \in DOMAIN d2 THEN d2[k] ELSE d1[k]]
\* d without key k (the dict left by d.pop(k))
DictWithout(d, k) == [x \in DOMAIN d \ {k} |-> d[x]]
\* the items of d whose key is in `keep`
DictFilter(d, keep) == [k \in DOMAIN d \cap keep |-> d[k]]

\* an error message: the key of its template, the template, the formatted value
Message(key, template, value) == [key |-> key, template |-> template, value |-> value]
NoMessage == Message("", "", "")
NoErrors == [k \in {} |-> NoMessage]

ReturnStr(s) ==
    [ok |-> TRUE, kind |-> "return", str |-> s, dict |-> EmptyDict,
     message |-> NoMessage, errors |-> NoErrors]
ReturnDict(d) ==
    [ok |-> TRUE, kind |-> "return", str |-> "", dict |-> d,
     message |-> NoMessage, errors |-> NoErrors]
\* an exception of class `kind` carrying one message
RaiseMessage(kind, message) ==
    [ok |-> FALSE, kind |-> kind, str |-> "", dict |-> EmptyDict,
     message |-> message, errors |-> NoErrors]
\* a serializer's ValidationError: field name -> message
RaiseErrors(errors) ==
    [ok |-> FALSE, kind |-> "ValidationError", str |-> "", dict |-> EmptyDict,
     message |-> NoMessage, errors |-> errors]

(***************************************************************************)
(* ResourceTypeSerializerField                                             *)
(***************************************************************************)
default_error_messages ==
    [resource_type |-> "No serializer available for type {value!r}",
     serializer |-> "No resource type available for serializer {value!r}"]

\* Field.fail(key, value=value): a ValidationError whose message is the
\* template of `key` formatted with the value
fail(key, value) ==
    RaiseMessage("ValidationError", Message(key, default_error_messages[key], value))

\* utils.get_resource_type_from_serializer with the field's format_type and
\* pluralize: the resource type of the serializer's model
get_resource_type_from_serializer(serializer_class) ==
    CASE MetaModel(serializer_class) = "Widget" -> "widget"
      [] MetaModel(serializer_class) = "Gadget" -> "gadget"

\* {get_resource_type_from_serializer(c): c for c in lst}: a later class
\* replaces an earlier one of the same resource type
RECURSIVE DictFromList(_)
DictFromList(lst) ==
    IF Len(lst) = 0 THEN EmptyDict
    ELSE LET last == lst[Len(lst)]
         IN  DictUpdate(DictFromList(SubSeq(lst, 1, Len(lst) - 1)),
                        [t \in {get_resource_type_from_serializer(last)} |-> last])

\* the `serializer_classes` arguments that pass `assert serializer_classes`
MappingArguments ==
    UNION { [D -> SerializerClasses] : D \in (SUBSET TypeNames) \ {{}} }
ListArguments ==
    UNION { [1..n -> SerializerClasses] : n \in 1..MaxListLen }

\* {serializer_class: resource_type for resource_type, serializer_class in
\* classes.items()}: of the types of one class the one iterated last stays,
\* and the iteration order of a dict is not fixed
InverseDicts(classes) ==
    { r \in [Range(classes) -> DOMAIN classes] : \A c \in Range(classes) : classes[r[c]] = c }

\* {serializer_class.Meta.model: serializer_class for serializer_class in
\* classes.values()}: of the classes of one model the one iterated last stays
ModelDicts(classes) ==
    { b \in [{MetaModel(c) : c \in Range(classes)} -> Range(classes)] :
        \A m \in DOMAIN b : MetaModel(b[m]) = m }

\* a slip in to_internal_value: an unknown type falls back to a registered
\* class instead of failing
Field_to_internal_value_fallback(data) ==
    IF data \notin DOMAIN serializer_classes
    THEN ReturnStr(CHOOSE c \in Range(serializer_classes) : TRUE)
    ELSE ReturnStr(serializer_classes[data])

\* ResourceTypeSerializerField.to_internal_value
Field_to_internal_value(data) ==
    IF data \notin DOMAIN serializer_classes
    THEN fail("resource_type", data)
    ELSE ReturnStr(serializer_classes[data])

\* a slip in to_representation: the type is derived from the class, not
\* looked up in the registry
Field_to_representation_derived(obj) ==
    IF obj \notin DOMAIN resource_types
    THEN fail("serializer", obj)
    ELSE ReturnStr(get_resource_type_from_serializer(obj))

\* ResourceTypeSerializerField.to_representation
Field_to_representation(obj) ==
    IF obj \notin DOMAIN resource_types
    THEN fail("serializer", obj)
    ELSE ReturnStr(resource_types[obj])

\* a slip in get_attribute: the class is looked up under the resource type
\* derived from the instance's class
Field_get_attribute_by_type(instance) ==
    LET t == IF instance.cls = "Widget" THEN "widget" ELSE "gadget"
    IN  IF instance.cls \notin DOMAIN serializer_classes_by_model
           \/ t \notin DOMAIN serializer_classes
        THEN RaiseMessage("KeyError", Message("KeyError", "", instance.cls))
        ELSE ReturnStr(serializer_classes[t])

\* ResourceTypeSerializerField.get_attribute: a plain dict lookup by
\* type(instance), so a missing class is a KeyError
Field_get_attribute(instance) ==
    IF instance.cls \notin DOMAIN serializer_classes_by_model
    THEN RaiseMessage("KeyError", Message("KeyError", "", instance.cls))
    ELSE ReturnStr(serializer_classes_by_model[instance.cls])

(***************************************************************************)
(* The serializers of the host framework: the container's own fields and   *)
(* the delegate serializer classes                                         *)
(***************************************************************************)
Invalid == "INVALID"

\* a declared field's to_internal_value: IntegerField is int(data),
\* CharField is str(data)
FieldToInternal(kind, v) ==
    CASE kind = "int" ->
            (CASE v \in {"int5", "str5"} -> "int5"
               [] v \in {"int7", "str7"} -> "int7"
               [] OTHER -> Invalid)
      [] kind = "char" ->
            (CASE v = "int5" -> "str5"
               [] v = "int7" -> "str7"
               [] OTHER -> v)

\* a declared field's to_representation: IntegerField is int(value),
\* CharField is str(value)
FieldToRepresentation(kind, v) == FieldToInternal(kind, v)

Required == Message("required", "This field is required.", "")
InvalidValue(v) == Message("invalid", "A valid integer is required.", v)

\* Serializer.to_internal_value of the container's base class: every
\* declared field validates its own input key; the failures are raised
\* together, keyed by field name
Super_to_internal_value(data) ==
    LET value(f) == IF f = "type" THEN Field_to_internal_value(data[f])
                    ELSE LET v == FieldToInternal(fields[f], data[f])
                         IN  IF v = Invalid
                             THEN RaiseMessage("ValidationError", InvalidValue(data[f]))
                             ELSE ReturnStr(v)
        failed == { f \in DOMAIN fields : f \notin DOMAIN data \/ ~value(f).ok }
    IN  IF failed # {}
        THEN RaiseErrors([f \in failed |->
                 IF f \notin DOMAIN data THEN Required ELSE value(f).message])
        ELSE ReturnDict([f \in DOMAIN fields |-> value(f).str])

\* Serializer.to_representation of the container's base class: every
\* declared field represents its attribute of the instance, keyed by field
\* name; the `type` field's attribute is its get_attribute(instance)
Super_to_representation(instance) ==
    LET attribute == Field_get_attribute(instance)
        type == Field_to_representation(attribute.str)
    IN  IF ~attribute.ok THEN attribute
        ELSE IF ~type.ok THEN type
        ELSE ReturnDict([f \in DOMAIN fields |->
                 IF f = "type" THEN type.str
                 ELSE FieldToRepresentation(fields[f], instance[f])])

NoInstance == [cls |-> "", id |-> "", color |-> ""]

\* `self` without a `serializer` attribute
NoSerializer ==
    [bound |-> FALSE, cls |-> "", has_data |-> FALSE, initial_data |-> EmptyDict,
     instance |-> NoInstance, is_valid_called |-> FALSE,
     validated_data |-> EmptyDict, errors |-> NoErrors]

\* serializer_class(data=data, context=...) followed by is_valid(): the
\* delegate validates the keys it declares and ignores the others; a failed
\* validation leaves validated_data empty
DelegateValidate(serializer_class, data) ==
    LET declared == DelegateFields(serializer_class)
        present == DOMAIN declared \cap DOMAIN data
        value(f) == FieldToInternal(declared[f].kind, data[f])
        failed == { f \in DOMAIN declared :
                      IF f \in present THEN value(f) = Invalid ELSE declared[f].required }
    IN  [bound |-> TRUE, cls |-> serializer_class, has_data |-> TRUE,
         initial_data |-> data, instance |-> NoInstance, is_valid_called |-> TRUE,
         validated_data |-> IF failed # {} THEN EmptyDict
                            ELSE [f \in present |-> value(f)],
         errors |-> [f \in failed |->
                       IF f \in present THEN InvalidValue(data[f]) ELSE Required]]

\* serializer_class(instance=instance, context=...)
DelegateForInstance(serializer_class, instance) ==
    [bound |-> TRUE, cls |-> serializer_class, has_data |-> FALSE,
     initial_data |-> EmptyDict, instance |-> instance, is_valid_called |-> FALSE,
     validated_data |-> EmptyDict, errors |-> NoErrors]

\* delegate.data of a delegate made for an instance
DelegateData(delegate) ==
    LET declared == DelegateFields(delegate.cls)
    IN  [f \in DOMAIN declared |->
            FieldToRepresentation(declared[f].kind, delegate.instance[f])]

\* delegate.save(): the object made from the validated data
DelegateSave(delegate) ==
    [ok |-> TRUE, kind |-> "return", str |-> delegate.cls,
     dict |-> delegate.validated_data, message |-> NoMessage, errors |-> NoErrors]

(***************************************************************************)
(* ResourceTypeSerializer                                                  *)
(***************************************************************************)
\* a slip in to_internal_value: every input key but `type` is passed on, so
\* raw values replace the validated ones
MergedData_raw(result, data) ==
    DictUpdate(DictWithout(result, "type"), DictWithout(data, "type"))

\* a slip in to_internal_value: the undeclared input keys are not passed on
MergedData_own(result, data) == DictWithout(result, "type")

\* what to_internal_value hands to the delegate: result.pop('type'), then
\* result.update(the items of data whose key is not in self.fields)
MergedData(result, data) ==
    DictUpdate(DictWithout(result, "type"),
               DictFilter(data, DOMAIN data \ DOMAIN fields))

\* a slip in to_internal_value: the merged data is returned
ValidatedResult_merged(delegate, result) == ReturnDict(result)

\* what to_internal_value returns once the delegate has validated
ValidatedResult(delegate, result) == ReturnDict(delegate.validated_data)

\* ResourceTypeSerializer.to_internal_value: the outcome and self.serializer
Serializer_to_internal_value(data) ==
    LET result == Super_to_internal_value(data)
    IN  IF ~result.ok THEN [out |-> result, serializer |-> serializer]
        ELSE LET merged == MergedData(result.dict, data)
                 delegate == DelegateValidate(result.dict["type"], merged)
             IN  IF delegate.errors # NoErrors
                 THEN [out |-> RaiseErrors(delegate.errors), serializer |-> delegate]
                 ELSE [out |-> ValidatedResult(delegate, merged),
                       serializer |-> delegate]

\* a slip in to_representation: every key of the delegate's data is added
MergedRepresentation_all(result, data) == DictUpdate(result, data)

\* result.update(the items of the delegate's data whose key is not in
\* self.fields)
MergedRepresentation(result, data) ==
    DictUpdate(result, DictFilter(data, DOMAIN data \ DOMAIN fields))

\* ResourceTypeSerializer.to_representation: the outcome and self.serializer
Serializer_to_representation(instance) ==
    LET result == Super_to_representation(instance)
        serializer_class == Field_get_attribute(instance)
    IN  IF ~result.ok THEN [out |-> result, serializer |-> serializer]
        ELSE IF ~serializer_class.ok
        THEN [out |-> serializer_class, serializer |-> serializer]
        ELSE LET delegate == DelegateForInstance(serializer_class.str, instance)
             IN  [out |-> ReturnDict(MergedRepresentation(result.dict,
                                                          DelegateData(delegate))),
                  serializer |-> delegate]

\* the test of `assert self.serializer.validated_data`
SaveAssertion(delegate) == delegate.validated_data # EmptyDict

\* ResourceTypeSerializer.save: the outcome and whether delegate.save() ran
Serializer_save ==
    IF ~serializer.bound
    THEN [out |-> RaiseMessage("AttributeError",
                      Message("AttributeError", "", "serializer")),
          saved |-> FALSE]
    ELSE IF ~serializer.is_valid_called
    THEN [out |-> RaiseMessage("AssertionError",
                      Message("AssertionError",
                              "You must call .is_valid() before accessing .validated_data.",
                              "")),
          saved |-> FALSE]
    ELSE IF ~SaveAssertion(serializer)
    THEN [out |-> RaiseMessage("AssertionError",
                      Message("AssertionError",
                              "You must call self.is_valid() before saving.", "")),
          saved |-> FALSE]
    ELSE [out |-> DelegateSave(serializer), saved |-> TRUE]

(***************************************************************************)
(* The state machine                                                       *)
(***************************************************************************)
Call(op, obj, data, instance, out) ==
    [op |-> op, obj |-> obj, data |-> data, instance |-> instance, out |-> out]

\* ResourceTypeSerializerField.__init__ with a mapping or a list, and the
\* construction of the container that declares the field as `type`
Init ==
    /\ \/ serializer_classes \in MappingArguments
       \/ \E lst \in ListArguments : serializer_classes = DictFromList(lst)
    /\ resource_types \in InverseDicts(serializer_classes)
    /\ serializer_classes_by_model \in ModelDicts(serializer_classes)
    /\ fields \in ContainerFields
    /\ serializer = NoSerializer
    /\ ret = Call("__init__", "", EmptyDict, NoInstance, ReturnStr(""))
    /\ saves = 0
    /\ validated = FALSE

Registries == <<serializer_classes, resource_types, serializer_classes_by_model, fields>>

FieldToInternalValue ==
    /\ \E data \in TypeInputs :
         ret' = Call("field.to_internal_value", data, EmptyDict, NoInstance,
                     Field_to_internal_value(data))
    /\ UNCHANGED <<Registries, serializer, saves, validated>>

FieldToRepresentationCall ==
    /\ \E obj \in SerializerClasses :
         ret' = Call("field.to_representation", obj, EmptyDict, NoInstance,
                     Field_to_representation(obj))
    /\ UNCHANGED <<Registries, serializer, saves, validated>>

FieldGetAttribute ==
    /\ \E instance \in Instances :
         ret' = Call("field.get_attribute", "", EmptyDict, instance,
                     Field_get_attribute(instance))
    /\ UNCHANGED <<Registries, serializer, saves, validated>>

\* what a client may send next: any payload, or the representation it has
\* just been given
NextPayloads ==
    Payloads \cup (IF ret.op = "to_representation" /\ ret.out.ok
                   THEN {ret.out.dict} ELSE {})

ToInternalValue ==
    /\ \E data \in NextPayloads :
         LET call == Serializer_to_internal_value(data)
         IN  /\ ret' = Call("to_internal_value", "", data, NoInstance, call.out)
             /\ serializer' = call.serializer
             /\ validated' = (validated \/ call.out.ok)
    /\ UNCHANGED <<Registries, saves>>

ToRepresentation ==
    /\ \E instance \in Instances :
         LET call == Serializer_to_representation(instance)
         IN  /\ ret' = Call("to_representation", "", EmptyDict, instance, call.out)
             /\ serializer' = call.serializer
    /\ UNCHANGED <<Registries, saves, validated>>

Save ==
    /\ saves < MaxSaves
    /\ LET call == Serializer_save
       IN  /\ ret' = Call("save", "", EmptyDict, NoInstance, call.out)
           /\ saves' = IF call.saved THEN saves + 1 ELSE saves
    /\ UNCHANGED <<Registries, serializer, validated>>

Next ==
    \/ FieldToInternalValue
    \/ FieldToRepresentationCall
    \/ FieldGetAttribute
    \/ ToInternalValue
    \/ ToRepresentation
    \/ Save

Spec == Init /\ [][Next]_vars

(***************************************************************************)
(* Properties of the type registry                                         *)
(***************************************************************************)
\* no serializer class is registered under two resource types
OneTypePerClass ==
    \A t, u \in DOMAIN serializer_classes :
        serializer_classes[t] = serializer_classes[u] => t = u

\* no two registered serializer classes share a model
OneClassPerModel ==
    \A c, d \in Range(serializer_classes) : MetaModel(c) = MetaModel(d) => c = d

\* C1 as claimed: whatever mapping the field was built from, decoding a
\* registered type t returns the class registered under t, and encoding
\* that class gives t back.
C1_AnyMappingRoundTrips ==
    (ret.op = "field.to_internal_value" /\ ret.obj \in DOMAIN serializer_classes)
        => /\ ret.out = ReturnStr(serializer_classes[ret.obj])
           /\ Field_to_representation(ret.out.str) = ReturnStr(ret.obj)

\* C1 amended: decoding a registered type t always returns the class
\* registered under t; encoding that class gives t back when the mapping
\* registers no class under two types, and otherwise still gives a type
\* registered for that class.
C1_OneTypePerClassRoundTrips ==
    (ret.op = "field.to_internal_value" /\ ret.obj \in DOMAIN serializer_classes)
        => LET back == Field_to_representation(ret.out.str)
           IN  /\ ret.out = ReturnStr(serializer_classes[ret.obj])
               /\ back.ok
               /\ back.str \in DOMAIN serializer_classes
               /\ serializer_classes[back.str] = ret.out.str
               /\ OneTypePerClass => back.str = ret.obj

C1_Witness ==
    /\ ret.op = "field.to_internal_value"
    /\ ret.out.ok
    /\ OneTypePerClass
    /\ Cardinality(DOMAIN serializer_classes) = 2
    /\ Field_to_representation(ret.out.str) = ReturnStr(ret.obj)

\* C2: decoding an unregistered type string raises the 'resource_type'
\* validation error, whose message carries the offending value; inside the
\* container's to_internal_value the call fails with that error under `type`
\* and self.serializer is left as it was: no delegate is made or bound.
C2_UnknownTypeFails ==
    /\ [](ret.op = "field.to_internal_value" /\ ret.obj \notin DOMAIN serializer_classes
            => /\ ~ret.out.ok
               /\ ret.out.kind = "ValidationError"
               /\ ret.out.message.key = "resource_type"
               /\ ret.out.message.template = default_error_messages["resource_type"]
               /\ ret.out.message.value = ret.obj)
    /\ [][(/\ ret'.op = "to_internal_value"
           /\ "type" \in DOMAIN ret'.data
           /\ ret'.data["type"] \notin DOMAIN serializer_classes)
            => /\ ~ret'.out.ok
               /\ ret'.out.kind = "ValidationError"
               /\ "type" \in DOMAIN ret'.out.errors
               /\ ret'.out.errors["type"].key = "resource_type"
               /\ ret'.out.errors["type"].value = ret'.data["type"]
               /\ serializer' = serializer]_vars

C2_Witness ==
    /\ ret.op = "to_internal_value"
    /\ "type" \in DOMAIN ret.data
    /\ ret.data["type"] = "gizmo"
    /\ ret.out.errors["type"].value = "gizmo"
    /\ serializer.bound

\* C3 as claimed: every failed reverse lookup is the 'serializer' validation
\* error: encoding an unregistered class, resolving an instance whose class
\* has no registered serializer, and serializing such an instance.
C3_ReverseLookupFailuresAreValidationErrors ==
    /\ (ret.op = "field.to_representation" /\ ret.obj \notin DOMAIN resource_types)
        => (~ret.out.ok /\ ret.out.kind = "ValidationError"
            /\ ret.out.message.key = "serializer")
    /\ (/\ ret.op \in {"field.get_attribute", "to_representation"}
        /\ ret.instance.cls \notin DOMAIN serializer_classes_by_model)
        => (~ret.out.ok /\ ret.out.kind = "ValidationError")

\* C10 as claimed: for every registered class s, resolving an instance of
\* s.Meta.model returns s, the container delegates to s and emits a type
\* registered for s, and the model registry has one entry per registered
\* class.
C10_EveryClassResolvesToItself ==
    \A s \in Range(serializer_classes) :
        /\ (ret.op = "field.get_attribute" /\ ret.instance.cls = MetaModel(s))
            => /\ ret.out = ReturnStr(s)
               /\ Cardinality(DOMAIN serializer_classes_by_model)
                    = Cardinality(Range(serializer_classes))
        /\ (ret.op = "to_representation" /\ ret.instance.cls = MetaModel(s))
            => /\ ret.out.ok
               /\ serializer.cls = s
               /\ serializer_classes[ret.out.dict["type"]] = s

\* C10 amended: resolving an instance of a registered class's model returns
\* a registered class of that model, which is s itself when no other
\* registered class shares s.Meta.model; the container delegates to the class
\* so resolved and emits a type registered for it; the model registry has
\* one entry per registered model.
C10_ResolvesToAClassOfTheModel ==
    \A s \in Range(serializer_classes) :
        /\ (ret.op = "field.get_attribute" /\ ret.instance.cls = MetaModel(s))
            => /\ ret.out.ok
               /\ ret.out.str \in Range(serializer_classes)
               /\ MetaModel(ret.out.str) = ret.instance.cls
               /\ OneClassPerModel => ret.out.str = s
               /\ Cardinality(DOMAIN serializer_classes_by_model)
                    = Cardinality({MetaModel(c) : c \in Range(serializer_classes)})
        /\ (ret.op = "to_representation" /\ ret.instance.cls = MetaModel(s))
            => /\ ret.out.ok
               /\ serializer.cls = Field_get_attribute(ret.instance).str
               /\ MetaModel(serializer.cls) = ret.instance.cls
               /\ serializer_classes[ret.out.dict["type"]] = serializer.cls
               /\ OneClassPerModel => serializer.cls = s

C10_Witness ==
    /\ ret.op = "to_representation"
    /\ ret.out.ok
    /\ OneClassPerModel
    /\ Cardinality(Range(serializer_classes)) = 2
    /\ serializer.cls = "GadgetSerializer"
    /\ ret.out.dict["type"] = "widget"

(***************************************************************************)
(* Properties of the container                                             *)
(***************************************************************************)
\* self.serializer is a delegate whose validation succeeded
DelegateValidated ==
    serializer.bound /\ serializer.is_valid_called /\ serializer.errors = NoErrors

\* C4 as claimed: a delegate's save() runs only after a to_internal_value of
\* the container has returned; save() from a state whose delegate has not
\* validated raises the assertion error and runs no delegate save().
C4_SaveNeedsValidation ==
    [][ret'.op = "save"
        => /\ saves' # saves => validated
           /\ ~DelegateValidated
                => (~ret'.out.ok /\ ret'.out.kind = "AssertionError"
                    /\ saves' = saves)]_vars

\* C5 as claimed: whenever the delegate bound by to_internal_value has
\* validated, whatever its validated data, save() runs that delegate's
\* save() exactly once and returns its result.
C5_SaveAfterValidation ==
    [][(ret'.op = "save" /\ DelegateValidated)
        => (ret'.out = DelegateSave(serializer) /\ saves' = saves + 1)]_vars

\* C6: the output of to_representation has the container's representation
\* keys plus the delegate's keys that are no declared field names; a
\* declared field name carries the container's value, any other key the
\* delegate's.
C6_ContainerFieldsWin ==
    (ret.op = "to_representation" /\ ret.out.ok)
        => LET own == Super_to_representation(ret.instance).dict
               delegate == DelegateData(DelegateForInstance(
                               Field_get_attribute(ret.instance).str, ret.instance))
               output == ret.out.dict
           IN  /\ DOMAIN output = DOMAIN own \cup (DOMAIN delegate \ DOMAIN fields)
               /\ \A k \in DOMAIN output :
                    output[k] = IF k \in DOMAIN fields THEN own[k] ELSE delegate[k]

\* a key both sides produce, with different values
C6_Witness ==
    /\ ret.op = "to_representation"
    /\ ret.out.ok
    /\ \E k \in DOMAIN fields \cap DOMAIN DelegateData(serializer) :
            /\ DelegateData(serializer)[k] # ret.out.dict[k]
            /\ ret.out.dict[k] = FieldToRepresentation(fields[k], ret.instance[k])
    /\ \E k \in DOMAIN ret.out.dict : k \notin DOMAIN fields

\* C8: the data handed to the delegate holds the container's validated
\* values of its declared fields other than `type`, and every input key that
\* is no declared field name with its input value; so it has no `type` and
\* no raw value where a declared field validated.
C8_DataHandedToDelegate ==
    (ret.op = "to_internal_value" /\ Super_to_internal_value(ret.data).ok)
        => LET own == Super_to_internal_value(ret.data).dict
               handed == serializer.initial_data
           IN  /\ serializer.has_data
               /\ serializer.cls = serializer_classes[ret.data["type"]]
               /\ DOMAIN handed = (DOMAIN fields \ {"type"})
                                    \cup (DOMAIN ret.data \ DOMAIN fields)
               /\ \A k \in DOMAIN handed :
                    handed[k] = IF k \in DOMAIN fields THEN own[k] ELSE ret.data[k]
               /\ "type" \notin DOMAIN handed

\* a declared field whose validated value differs from the raw one, next to
\* a key passed through
C8_Witness ==
    /\ ret.op = "to_internal_value"
    /\ Super_to_internal_value(ret.data).ok
    /\ \E k \in DOMAIN fields \ {"type"} : serializer.initial_data[k] # ret.data[k]
    /\ \E k \in DOMAIN ret.data \ DOMAIN fields : serializer.initial_data[k] = ret.data[k]

\* C9: once the container's own fields have validated, the call returns the
\* delegate's validated data when the delegate validates the data handed to
\* it, and raises the delegate's errors as they are when it does not.
C9_DelegateOutcome ==
    (ret.op = "to_internal_value" /\ Super_to_internal_value(ret.data).ok)
        => LET delegate == DelegateValidate(serializer_classes[ret.data["type"]],
                                            serializer.initial_data)
           IN  IF delegate.errors = NoErrors
               THEN ret.out = ReturnDict(delegate.validated_data)
               ELSE ret.out = RaiseErrors(delegate.errors)

\* the delegate's validated data differs from what it was handed
C9_Witness ==
    /\ ret.op = "to_internal_value"
    /\ ret.out.ok
    /\ ret.out.dict # serializer.initial_data
    /\ ret.out.dict = serializer.validated_data
    /\ \E k \in DOMAIN ret.out.dict : ret.out.dict[k] # serializer.initial_data[k]

\* C7 as claimed: deserializing the representation of an instance resolves
\* the delegate class that serialized it and returns validated data with the
\* instance's value for every container-declared field and every field of
\* the delegate.
C7_RoundTripKeepsAllFields ==
    [][(/\ ret.op = "to_representation"
        /\ ret.out.ok
        /\ ret'.op = "to_internal_value"
        /\ ret'.data = ret.out.dict)
        => /\ ret'.out.ok
           /\ serializer'.cls = serializer.cls
           /\ \A k \in (DOMAIN fields \ {"type"}) \cup DOMAIN DelegateFields(serializer.cls) :
                k \in DOMAIN ret'.out.dict /\ ret'.out.dict[k] = ret.instance[k]]_vars

\* C7 amended: deserializing the representation of an instance resolves the
\* delegate class that serialized it and returns validated data with the
\* instance's value for exactly the fields the delegate declares; a field
\* only the container declares is not in it.
C7_RoundTripKeepsDelegateFields ==
    [][(/\ ret.op = "to_representation"
        /\ ret.out.ok
        /\ ret'.op = "to_internal_value"
        /\ ret'.data = ret.out.dict)
        => /\ ret'.out.ok
           /\ serializer'.cls = serializer.cls
           /\ DOMAIN ret'.out.dict = DOMAIN DelegateFields(serializer.cls)
           /\ \A k \in DOMAIN DelegateFields(serializer.cls) :
                ret'.out.dict[k] = ret.instance[k]]_vars

\* a representation (no payload of a client has an integer id) came back,
\* and the id the container declares is not in the validated data
C7_Witness ==
    /\ ret.op = "to_internal_value"
    /\ ret.out.ok
    /\ ret.data \notin Payloads
    /\ "id" \in DOMAIN fields
    /\ ret.data["id"] \in {"int5", "int7"}
    /\ serializer.cls = "WidgetBriefSerializer"
    /\ DOMAIN ret.out.dict = {"color"}

====
